---- MODULE Spec2Model ----
(***************************************************************************)
(* The durable job queue of rankpublic: the JobQueue durable object and    *)
(* its lease / retry / complete protocol over the `jobs` table.            *)
(* Every request handler of JobQueue.fetch runs to completion without an   *)
(* await between its SQL statements, so each handler is one atomic action. *)
(***************************************************************************)
EXTENDS Integers, Sequences, FiniteSets, TLC

\* ------------------------------------------------------------------------
\* Bounds of the model
\* ------------------------------------------------------------------------
\* number of clock advances explored
MaxTicks == 1
\* fail is explored while the stored attempts is below this value
MaxFails == 3
\* page requests of one walk over GET /list
MaxPages == 4
\* dispatches whose /dequeue response the Consumer never gets
MaxCrashes == 1

\* ------------------------------------------------------------------------
\* Values
\* ------------------------------------------------------------------------
\* SQL NULL in a nullable INTEGER column (leaseUntil, nextRunAt)
NULL == 0 - 1
\* SQL NULL in a nullable TEXT column (result, error), JS null in a response
NULLTEXT == "<null>"
\* an absent / undefined text field of a request body
NoValue == "<undefined>"
\* a maxAttempts field of a request body that is absent or not a number
NotANumber == 0 - 2
\* no row with that primary key
NoRow == [id |-> NULLTEXT]

\* first reading of Date.now()
T0 == 1000

\* primary keys used by the producers, in ascending text order
IdSeq == <<"a", "b", "c">>
\* the ids the producers and consumers name; the third id is named only
\* where three jobs are listed
Ids == {IdSeq[1], IdSeq[2]}
AllIds == {IdSeq[i] : i \in 1..Len(IdSeq)}
IdOrd(id) == CHOOSE i \in 1..Len(IdSeq) : IdSeq[i] = id
\* SQLite text comparison id1 < id2
IdLess(id1, id2) == IdOrd(id1) < IdOrd(id2)

\* request bodies of POST /enqueue
EnqueueInputs ==
    {[id |-> "a", type |-> "crawl", createdAt |-> T0, maxAttempts |-> NotANumber],
     [id |-> "a", type |-> "rank", createdAt |-> T0 + 5, maxAttempts |-> 0],
     [id |-> "b", type |-> "crawl", createdAt |-> T0, maxAttempts |-> 4],
     [id |-> "b", type |-> "other", createdAt |-> T0, maxAttempts |-> 2]}
\* request bodies of POST /enqueue exercising every clamp of maxAttempts
EnqueueBodies ==
    [id : Ids, type : {"crawl", "rank", "other"}, createdAt : {T0, T0 + 5},
     maxAttempts : {0, 3, 11, NotANumber}]
\* requests of POST /v1/jobs/enqueue at the Gateway
GatewayInputs ==
    {[authorized |-> TRUE, parses |-> TRUE, type |-> "crawl", maxAttempts |-> NotANumber],
     [authorized |-> TRUE, parses |-> TRUE, type |-> "rank", maxAttempts |-> 0],
     [authorized |-> TRUE, parses |-> TRUE, type |-> "other", maxAttempts |-> 2],
     [authorized |-> TRUE, parses |-> TRUE, type |-> NoValue, maxAttempts |-> NotANumber],
     [authorized |-> TRUE, parses |-> FALSE, type |-> NoValue, maxAttempts |-> NotANumber],
     [authorized |-> FALSE, parses |-> TRUE, type |-> "crawl", maxAttempts |-> NotANumber]}
\* request bodies of POST /complete and POST /fail
ResultInputs == {"r"}
ErrorInputs == {"e"}

\* const leaseMs = 2 * 60 * 1000
leaseMs == 120000

VARIABLES
    jobs,      \* the jobs table: id -> row, or NoRow
    now,       \* Date.now()
    ticks,     \* number of clock advances so far
    lastOp,    \* the last request handled, the row it found and its response
    prevDeq,   \* the /dequeue response before lastOp, when lastOp is a /dequeue
    consumer,  \* the Consumer's scheduled invocation: its position and locals
    dispatched \* id -> number of times /dequeue has returned the job

vars == <<jobs, now, ticks, lastOp, prevDeq, consumer, dispatched>>

\* ------------------------------------------------------------------------
\* Helpers of the source
\* ------------------------------------------------------------------------
\* fault: the upper limit is not applied
clampInt_NoUpper(n, min, max) ==
    IF n = NotANumber THEN NULL
    ELSE IF n < min THEN min
    ELSE n

\* clampInt(n, min, max): null for a non-number
clampInt(n, min, max) ==
    IF n = NotANumber THEN NULL
    ELSE IF n < min THEN min
    ELSE IF n > max THEN max
    ELSE n

\* JSON.stringify(body.result ?? null)
resultJson(result) ==
    IF result = NoValue THEN "null" ELSE "\"" \o result \o "\""

\* safeParseJson(row.result): null for a NULL column, the parsed value of a
\* JSON text, the text itself when it does not parse
safeParseJson(text) ==
    IF text = NULLTEXT \/ text = "null" THEN NULLTEXT
    ELSE IF \E v \in ResultInputs : resultJson(v) = text
         THEN CHOOSE v \in ResultInputs : resultJson(v) = text
         ELSE text

\* String(body.error ?? "unknown")
errString(error) ==
    IF error = NoValue THEN "unknown" ELSE error

\* fault: the schedule indexed by the attempts before the failure
backoffMs_OffByOne(nextAttempts) ==
    IF nextAttempts = 2 THEN 10000
    ELSE IF nextAttempts = 3 THEN 60000
    ELSE 300000

\* backoffMs of /fail
backoffMs(nextAttempts) ==
    IF nextAttempts = 1 THEN 10000
    ELSE IF nextAttempts = 2 THEN 60000
    ELSE 300000

Stored == {id \in DOMAIN jobs : jobs[id] # NoRow}

\* the response record; fields a handler does not answer keep these values
NoResp ==
    [op |-> "none", id |-> NULLTEXT, arg |-> NULLTEXT,
     reqType |-> NULLTEXT, reqCreatedAt |-> NULL, reqMaxAttempts |-> NULL,
     beforeMs |-> NULL, at |-> NULL, doHttp |-> 0,
     http |-> 0, job |-> NULLTEXT, jobType |-> NULLTEXT,
     jobTarget |-> NULLTEXT, jobCreatedAt |-> NULL,
     leaseUntil |-> NULL, retried |-> FALSE,
     attempts |-> NULL, maxAttempts |-> NULL, nextRunAt |-> NULL,
     deleted |-> NULL, pre |-> NoRow]

NoDeq == [job |-> NULLTEXT, leaseUntil |-> NULL]

\* the Consumer between two scheduled invocations.  i counts the iterations
\* of the loop, job and type are the job of the last /dequeue response, sent
\* the acks POSTed for it so far
Idle == [pc |-> "idle", i |-> 0, job |-> NULLTEXT, type |-> NULLTEXT,
         sent |-> <<>>]

\* requests that do not come from the Consumer leave it where it is
QueueOnly(A) == A /\ UNCHANGED <<consumer, dispatched>>

\* ------------------------------------------------------------------------
\* Initial state: the table just created, empty.  Every row the handlers
\* below write has a non-null sortAt, so the sortAt backfill that opens each
\* request changes no row.
\* ------------------------------------------------------------------------
Init ==
    /\ jobs = [id \in Ids |-> NoRow]
    /\ now = T0
    /\ ticks = 0
    /\ lastOp = NoResp
    /\ prevDeq = NoDeq
    /\ consumer = Idle
    /\ dispatched = [id \in DOMAIN jobs |-> 0]

\* ------------------------------------------------------------------------
\* POST /enqueue
\* ------------------------------------------------------------------------
EnqueueRow(id, type, createdAt, maxAttemptsIn) ==
    [id |-> id, type |-> type, target |-> "https://x", createdAt |-> createdAt,
     status |-> "queued", updatedAt |-> now, leaseUntil |-> NULL,
     result |-> NULLTEXT, error |-> NULLTEXT, attempts |-> 0,
     maxAttempts |-> (IF clampInt(maxAttemptsIn, 1, 10) = NULL THEN 3
                      ELSE clampInt(maxAttemptsIn, 1, 10)),
     nextRunAt |-> NULL, sortAt |-> now]

\* the outcome of the handler: 400 for an invalid job payload, 500 when the
\* INSERT throws on the PRIMARY KEY (nothing is written), else 200
EnqueueHttp(id, typeIn) ==
    IF ~(typeIn = "crawl" \/ typeIn = "rank") THEN 400
    ELSE IF jobs[id] # NoRow THEN 500
    ELSE 200

\* fault: INSERT OR REPLACE, a duplicate id overwrites the stored row
EnqueueTable_Upsert(id, typeIn, createdAt, maxAttemptsIn) ==
    IF EnqueueHttp(id, typeIn) # 400
    THEN [jobs EXCEPT ![id] = EnqueueRow(id, typeIn, createdAt, maxAttemptsIn)]
    ELSE jobs

EnqueueTable(id, typeIn, createdAt, maxAttemptsIn) ==
    IF EnqueueHttp(id, typeIn) = 200
    THEN [jobs EXCEPT ![id] = EnqueueRow(id, typeIn, createdAt, maxAttemptsIn)]
    ELSE jobs

Enqueue(id, typeIn, createdAt, maxAttemptsIn) ==
    /\ jobs' = EnqueueTable(id, typeIn, createdAt, maxAttemptsIn)
    /\ lastOp' = [NoResp EXCEPT !.op = "enqueue", !.id = id, !.at = now,
                                !.reqType = typeIn, !.reqCreatedAt = createdAt,
                                !.reqMaxAttempts = maxAttemptsIn,
                                !.http = EnqueueHttp(id, typeIn),
                                !.pre = jobs[id]]
    /\ prevDeq' = NoDeq
    /\ UNCHANGED <<now, ticks>>

\* ------------------------------------------------------------------------
\* POST /dequeue
\* ------------------------------------------------------------------------
\* fault: a lease counts as expired at the instant leaseUntil itself
Eligible_LeaseInclusive(row, t) ==
    \/ /\ row.status = "queued"
       /\ (row.nextRunAt = NULL \/ row.nextRunAt <= t)
    \/ /\ row.status = "processing"
       /\ row.leaseUntil # NULL
       /\ row.leaseUntil <= t

\* fault: a backoff ends only strictly after nextRunAt
Eligible_BackoffStrict(row, t) ==
    \/ /\ row.status = "queued"
       /\ (row.nextRunAt = NULL \/ row.nextRunAt < t)
    \/ /\ row.status = "processing"
       /\ row.leaseUntil # NULL
       /\ row.leaseUntil < t

\* the WHERE clause of the SELECT, evaluated at time t
\* fault: an expired lease is never reclaimed
Eligible_NoReclaim(row, t) ==
    /\ row.status = "queued"
    /\ (row.nextRunAt = NULL \/ row.nextRunAt <= t)

Eligible(row, t) ==
    \/ /\ row.status = "queued"
       /\ (row.nextRunAt = NULL \/ row.nextRunAt <= t)
    \/ /\ row.status = "processing"
       /\ row.leaseUntil # NULL
       /\ row.leaseUntil < t

\* ORDER BY createdAt ASC LIMIT 1: the rows the SELECT may return.  The
\* statement names no second sort key, so among rows of equal createdAt
\* SQLite returns whichever its plan visits first.
DequeueCandidates(t) ==
    {id \in Stored :
        /\ Eligible(jobs[id], t)
        /\ \A o \in Stored :
              Eligible(jobs[o], t) => jobs[id].createdAt <= jobs[o].createdAt}

\* fault: a lease counts as an attempt
DequeueUpdate_CountsAttempt(row, t) ==
    [row EXCEPT !.status = "processing", !.updatedAt = t, !.sortAt = t,
                !.leaseUntil = t + leaseMs, !.nextRunAt = NULL,
                !.attempts = row.attempts + 1]

\* fault: the UPDATE of /dequeue leaves nextRunAt as it is
DequeueUpdate_KeepsNextRunAt(row, t) ==
    [row EXCEPT !.status = "processing", !.updatedAt = t, !.sortAt = t,
                !.leaseUntil = t + leaseMs]

DequeueUpdate(row, t) ==
    [row EXCEPT !.status = "processing", !.updatedAt = t, !.sortAt = t,
                !.leaseUntil = t + leaseMs, !.nextRunAt = NULL]

Dequeue ==
    LET resp == [NoResp EXCEPT !.op = "dequeue", !.at = now, !.http = 200]
    IN  /\ IF DequeueCandidates(now) = {}
             THEN /\ jobs' = jobs
                  /\ lastOp' = resp
             ELSE \E id \in DequeueCandidates(now) :
                  /\ jobs' = [jobs EXCEPT ![id] = DequeueUpdate(jobs[id], now)]
                  /\ lastOp' = [resp EXCEPT !.id = id, !.job = jobs[id].id,
                                            !.jobType = jobs[id].type,
                                            !.jobTarget = jobs[id].target,
                                            !.jobCreatedAt = jobs[id].createdAt,
                                            !.leaseUntil = now + leaseMs,
                                            !.pre = jobs[id]]
        /\ prevDeq' = IF lastOp.op = "dequeue"
                        THEN [job |-> lastOp.job,
                              leaseUntil |-> lastOp.leaseUntil]
                        ELSE NoDeq
        /\ UNCHANGED <<now, ticks>>

\* ------------------------------------------------------------------------
\* POST /complete
\* ------------------------------------------------------------------------
\* fault: the UPDATE of /complete leaves leaseUntil as it is
CompleteUpdate_KeepsLease(row, result, t) ==
    [row EXCEPT !.status = "done", !.updatedAt = t, !.sortAt = t,
                !.result = resultJson(result), !.error = NULLTEXT]

\* fault: the UPDATE of /complete also resets the retry counter
CompleteUpdate_ResetsAttempts(row, result, t) ==
    [row EXCEPT !.status = "done", !.updatedAt = t, !.sortAt = t,
                !.leaseUntil = NULL, !.result = resultJson(result),
                !.error = NULLTEXT, !.attempts = 0]

\* fault: every acknowledgement is counted as an attempt
CompleteUpdate_CountsCall(row, result, t) ==
    [row EXCEPT !.status = "done", !.updatedAt = t, !.sortAt = t,
                !.leaseUntil = NULL, !.result = resultJson(result),
                !.error = NULLTEXT, !.attempts = row.attempts + 1]

CompleteUpdate(row, result, t) ==
    [row EXCEPT !.status = "done", !.updatedAt = t, !.sortAt = t,
                !.leaseUntil = NULL, !.result = resultJson(result),
                !.error = NULLTEXT]

Complete(id, result) ==
    /\ jobs' = IF jobs[id] = NoRow THEN jobs
               ELSE [jobs EXCEPT ![id] = CompleteUpdate(jobs[id], result, now)]
    /\ lastOp' = [NoResp EXCEPT !.op = "complete", !.id = id, !.arg = result,
                                !.at = now,
                                !.http = 200, !.pre = jobs[id]]
    /\ prevDeq' = NoDeq
    /\ UNCHANGED <<now, ticks>>

\* ------------------------------------------------------------------------
\* POST /fail
\* ------------------------------------------------------------------------
\* fault: the retry budget is taken to be one attempt shorter
FailUpdate_ExhaustsEarly(row, error, t) ==
    LET nextAttempts == row.attempts + 1
    IN  IF nextAttempts < row.maxAttempts - 1
        THEN [row EXCEPT !.status = "queued", !.updatedAt = t, !.sortAt = t,
                         !.leaseUntil = NULL, !.error = errString(error),
                         !.attempts = nextAttempts,
                         !.nextRunAt = t + backoffMs(nextAttempts)]
        ELSE [row EXCEPT !.status = "failed", !.updatedAt = t, !.sortAt = t,
                         !.leaseUntil = NULL, !.error = errString(error),
                         !.attempts = nextAttempts, !.nextRunAt = NULL]

\* fault: a retried job keeps its status and its lease
FailUpdate_KeepsLease(row, error, t) ==
    LET nextAttempts == row.attempts + 1
    IN  IF nextAttempts < row.maxAttempts
        THEN [row EXCEPT !.updatedAt = t, !.sortAt = t,
                         !.error = errString(error),
                         !.attempts = nextAttempts,
                         !.nextRunAt = t + backoffMs(nextAttempts)]
        ELSE [row EXCEPT !.status = "failed", !.updatedAt = t, !.sortAt = t,
                         !.leaseUntil = NULL, !.error = errString(error),
                         !.attempts = nextAttempts, !.nextRunAt = NULL]

FailUpdate(row, error, t) ==
    LET nextAttempts == row.attempts + 1
    IN  IF nextAttempts < row.maxAttempts
        THEN [row EXCEPT !.status = "queued", !.updatedAt = t, !.sortAt = t,
                         !.leaseUntil = NULL, !.error = errString(error),
                         !.attempts = nextAttempts,
                         !.nextRunAt = t + backoffMs(nextAttempts)]
        ELSE [row EXCEPT !.status = "failed", !.updatedAt = t, !.sortAt = t,
                         !.leaseUntil = NULL, !.error = errString(error),
                         !.attempts = nextAttempts, !.nextRunAt = NULL]

\* fault: no lookup, an unknown id is answered like a stored one
FailHttp_NoLookup(row) == 200

FailHttp(row) == IF row = NoRow THEN 404 ELSE 200

Fail(id, error) ==
    LET resp == [NoResp EXCEPT !.op = "fail", !.id = id, !.arg = error,
                               !.at = now, !.pre = jobs[id]]
    IN  /\ jobs[id] # NoRow => jobs[id].attempts < MaxFails
        /\ IF jobs[id] = NoRow
             THEN /\ jobs' = jobs
                  /\ lastOp' = [resp EXCEPT !.http = FailHttp(jobs[id])]
             ELSE LET nextAttempts == jobs[id].attempts + 1
                      retried == nextAttempts < jobs[id].maxAttempts
                  IN  /\ jobs' = [jobs EXCEPT ![id] = FailUpdate(jobs[id], error, now)]
                      /\ lastOp' = [resp EXCEPT
                            !.http = FailHttp(jobs[id]), !.retried = retried,
                            !.attempts = nextAttempts,
                            !.maxAttempts = jobs[id].maxAttempts,
                            !.nextRunAt = IF retried
                                            THEN now + backoffMs(nextAttempts)
                                            ELSE NULL]
        /\ prevDeq' = NoDeq
        /\ UNCHANGED <<now, ticks>>

\* ------------------------------------------------------------------------
\* POST /purge
\* ------------------------------------------------------------------------
\* fault: rows written at beforeMs itself are deleted too
Purged_Inclusive(beforeMs) ==
    {id \in Stored :
        /\ (jobs[id].status = "done" \/ jobs[id].status = "failed")
        /\ jobs[id].sortAt <= beforeMs}

Purged(beforeMs) ==
    {id \in Stored :
        /\ (jobs[id].status = "done" \/ jobs[id].status = "failed")
        /\ jobs[id].sortAt < beforeMs}

Purge(beforeMs) ==
    /\ jobs' = [id \in DOMAIN jobs |->
                    IF id \in Purged(beforeMs) THEN NoRow ELSE jobs[id]]
    /\ lastOp' = [NoResp EXCEPT !.op = "purge", !.at = now, !.http = 200,
                                !.beforeMs = beforeMs,
                                !.deleted = Cardinality(Purged(beforeMs))]
    /\ prevDeq' = NoDeq
    /\ UNCHANGED <<now, ticks>>

\* ------------------------------------------------------------------------
\* The clock: Date.now() read by the next request.  It moves to the instants
\* at which a stored backoff or lease changes eligibility: nextRunAt (first
\* eligible instant), leaseUntil (last instant of the lease) and
\* leaseUntil + 1 (first instant after it).
\* ------------------------------------------------------------------------
TickTargets ==
    {jobs[id].nextRunAt : id \in {i \in Stored : jobs[i].nextRunAt # NULL}}
    \cup {jobs[id].leaseUntil : id \in {i \in Stored : jobs[i].leaseUntil # NULL}}
    \cup {jobs[id].leaseUntil + 1 : id \in {i \in Stored : jobs[i].leaseUntil # NULL}}

Tick ==
    /\ ticks < MaxTicks
    /\ \E t \in TickTargets :
          /\ t > now
          /\ now' = t
    /\ ticks' = ticks + 1
    /\ UNCHANGED <<jobs, lastOp, prevDeq>>

Next ==
    \/ \E job \in EnqueueInputs :
          QueueOnly(Enqueue(job.id, job.type, job.createdAt, job.maxAttempts))
    \/ QueueOnly(Dequeue)
    \/ \E id \in Ids, r \in ResultInputs : QueueOnly(Complete(id, r))
    \/ \E id \in Ids, e \in ErrorInputs : QueueOnly(Fail(id, e))
    \/ \E b \in {now, now + 1} : QueueOnly(Purge(b))
    \/ QueueOnly(Tick)

Spec == Init /\ [][Next]_vars

\* ------------------------------------------------------------------------
\* GET /get?id=...: the job of the response for the given table (NoRow for
\* job = null); the *Iso fields, derived from the timestamps, are left out
\* ------------------------------------------------------------------------
Get(table, id) ==
    IF table[id] = NoRow THEN NoRow
    ELSE [table[id] EXCEPT !.result = safeParseJson(table[id].result)]

\* ------------------------------------------------------------------------
\* GET /list?status=...&limit=...&cursor=...
\* ------------------------------------------------------------------------
\* the status parameter (NULLTEXT: absent) and the value parseInt reads from
\* the limit parameter (NotANumber: absent or not a number)
StatusInputs == {NULLTEXT, "queued", "processing", "done", "failed", "bogus"}
LimitInputs == {NotANumber, 0, 1, 2}

normalizeStatus(st) ==
    IF st \in {"queued", "processing", "done", "failed"} THEN st ELSE NULLTEXT

clampIntFromString(n, fallback, min, max) ==
    LET v == IF n = NotANumber THEN fallback ELSE n
        lo == IF max < v THEN max ELSE v
    IN  IF min > lo THEN min ELSE lo

\* the cursor parameter: absent, or the base64 text of {sortAt, id}
NoCursor == <<>>
encodeCursor(obj) == <<"b64", obj.sortAt, obj.id>>
\* null for an absent cursor, else the object parsed back
NoCursorObj == [sortAt |-> NULL, id |-> NULLTEXT]
\* fault: the id of the cursor is lost
decodeCursor_DropsId(cursor) ==
    IF cursor = NoCursor THEN NoCursorObj
    ELSE [sortAt |-> cursor[2], id |-> NULLTEXT]

decodeCursor(cursor) ==
    IF cursor = NoCursor THEN NoCursorObj
    ELSE [sortAt |-> cursor[2], id |-> cursor[3]]

\* fault: the keyset predicate without its tie clause
AfterCursor_NoTieBreak(row, c) ==
    row.sortAt < c.sortAt

\* sortAt < ? OR (sortAt = ? AND id < ?)
AfterCursor(row, c) ==
    \/ row.sortAt < c.sortAt
    \/ row.sortAt = c.sortAt /\ IdLess(row.id, c.id)

\* ORDER BY sortAt DESC, id DESC: row1 comes before row2
ListBefore(row1, row2) ==
    \/ row1.sortAt > row2.sortAt
    \/ row1.sortAt = row2.sortAt /\ IdLess(row2.id, row1.id)

RECURSIVE ListOrdered(_, _, _)
\* the first limit ids of S in ORDER BY sortAt DESC, id DESC
ListOrdered(table, S, limit) ==
    IF S = {} \/ limit = 0 THEN <<>>
    ELSE LET first == CHOOSE x \in S :
                         \A y \in S \ {x} : ListBefore(table[x], table[y])
         IN  <<first>> \o ListOrdered(table, S \ {first}, limit - 1)

\* the response: the items (result parsed as /get does) and nextCursor
List(table, statusIn, limitIn, cursor) ==
    LET status == normalizeStatus(statusIn)
        limit == clampIntFromString(limitIn, 50, 1, 200)
        c == decodeCursor(cursor)
        keyset == c.sortAt # NULL /\ c.id # NULLTEXT
        rows == {id \in DOMAIN table :
                    /\ table[id] # NoRow
                    /\ status # NULLTEXT => table[id].status = status
                    /\ keyset => AfterCursor(table[id], c)}
        ids == ListOrdered(table, rows, limit)
        items == [i \in 1..Len(ids) |-> Get(table, ids[i])]
    IN  [items |-> items,
         nextCursor |-> IF Len(items) > 0
                        THEN encodeCursor([sortAt |-> items[Len(items)].sortAt,
                                           id |-> items[Len(items)].id])
                        ELSE NoCursor]

RECURSIVE ListWalk(_, _, _, _, _)
\* a client following nextCursor from the given cursor until it is null, for
\* at most pages requests: the ids of the items in the order received, and
\* whether a null nextCursor was reached
ListWalk(table, statusIn, limitIn, cursor, pages) ==
    IF pages = 0 THEN [ids |-> <<>>, ended |-> FALSE]
    ELSE LET page == List(table, statusIn, limitIn, cursor)
             ids == [i \in 1..Len(page.items) |-> page.items[i].id]
         IN  IF page.nextCursor = NoCursor
             THEN [ids |-> ids, ended |-> TRUE]
             ELSE LET rest == ListWalk(table, statusIn, limitIn,
                                       page.nextCursor, pages - 1)
                  IN  [ids |-> ids \o rest.ids, ended |-> rest.ended]

\* ------------------------------------------------------------------------
\* Gateway: POST /v1/jobs/enqueue.  uuid is the value of crypto.randomUUID();
\* the target of the body is "https://x".  The status of the Response the
\* queue answers is not read: only a throw of stub.fetch is an error.
\* ------------------------------------------------------------------------
GatewayEnqueue(body, uuid) ==
    LET resp == [NoResp EXCEPT !.op = "gateway_enqueue", !.at = now,
                               !.reqType = body.type,
                               !.reqMaxAttempts = body.maxAttempts]
        doHttp == EnqueueHttp(uuid, body.type)
    IN  /\ IF ~body.authorized
             THEN jobs' = jobs /\ lastOp' = [resp EXCEPT !.http = 401]
             ELSE IF ~body.parses
             THEN jobs' = jobs /\ lastOp' = [resp EXCEPT !.http = 400]
             ELSE IF body.type = NoValue
             THEN jobs' = jobs /\ lastOp' = [resp EXCEPT !.http = 400]
             ELSE /\ jobs' = EnqueueTable(uuid, body.type, now, body.maxAttempts)
                  /\ lastOp' = [resp EXCEPT
                        !.id = uuid, !.reqCreatedAt = now, !.pre = jobs[uuid],
                        !.doHttp = doHttp,
                        !.http = IF doHttp = 500 THEN 500 ELSE 202]
        /\ prevDeq' = NoDeq
        /\ UNCHANGED <<now, ticks>>

\* ------------------------------------------------------------------------
\* The queue behind the Gateway: producers enqueue through the Gateway, the
\* other requests are forwarded to the queue as they are
\* ------------------------------------------------------------------------
NextGateway ==
    \/ \E body \in GatewayInputs, uuid \in Ids : QueueOnly(GatewayEnqueue(body, uuid))
    \/ QueueOnly(Dequeue)
    \/ \E id \in Ids, r \in ResultInputs : QueueOnly(Complete(id, r))
    \/ \E b \in {now, now + 1} : QueueOnly(Purge(b))

SpecGateway == Init /\ [][NextGateway]_vars

\* ------------------------------------------------------------------------
\* The queue driven with every enqueue body, to exercise the validation and
\* the clamps of /enqueue next to rows in other states
\* ------------------------------------------------------------------------
NextEnqueue ==
    \/ \E job \in EnqueueBodies :
          QueueOnly(Enqueue(job.id, job.type, job.createdAt, job.maxAttempts))
    \/ QueueOnly(Dequeue)
    \/ \E id \in Ids, r \in ResultInputs : QueueOnly(Complete(id, r))
    \/ \E b \in {now, now + 1} : QueueOnly(Purge(b))

SpecEnqueue == Init /\ [][NextEnqueue]_vars

\* ------------------------------------------------------------------------
\* The queue as GET /list reads it: stores of queued, leased and done jobs
\* whose sortAt are equal (written at one clock value) or differ (written
\* before and after the clock moved), and stores rows were purged from
\* ------------------------------------------------------------------------
NextList ==
    \/ \E job \in EnqueueInputs :
          QueueOnly(Enqueue(job.id, job.type, job.createdAt, job.maxAttempts))
    \/ QueueOnly(Dequeue)
    \/ \E id \in Ids, r \in ResultInputs : QueueOnly(Complete(id, r))
    \/ \E b \in {now, now + 1} : QueueOnly(Purge(b))
    \/ QueueOnly(Tick)

SpecList == Init /\ [][NextList]_vars

\* ------------------------------------------------------------------------
\* One job and the consumers racing for it: the leaseholder's /complete or
\* /fail and the /dequeue of another consumer are handled in either order,
\* before or after the lease expired
\* ------------------------------------------------------------------------
NextRace ==
    \/ \E job \in {j \in EnqueueInputs : j.id = IdSeq[1]} :
          QueueOnly(Enqueue(job.id, job.type, job.createdAt, job.maxAttempts))
    \/ QueueOnly(Dequeue)
    \/ \E r \in ResultInputs : QueueOnly(Complete(IdSeq[1], r))
    \/ \E e \in ErrorInputs : QueueOnly(Fail(IdSeq[1], e))
    \/ QueueOnly(Tick)

SpecRace == Init /\ [][NextRace]_vars

\* ------------------------------------------------------------------------
\* Three jobs in the table, for listings of more than one page: written at
\* one clock value or at two, queued, leased or done
\* ------------------------------------------------------------------------
ThreeJobs ==
    {[id |-> IdSeq[1], type |-> "crawl", createdAt |-> T0, maxAttempts |-> NotANumber],
     [id |-> IdSeq[2], type |-> "crawl", createdAt |-> T0, maxAttempts |-> 4],
     [id |-> IdSeq[3], type |-> "rank", createdAt |-> T0, maxAttempts |-> 2]}

InitThree ==
    /\ jobs = [id \in AllIds |-> NoRow]
    /\ now = T0
    /\ ticks = 0
    /\ lastOp = NoResp
    /\ prevDeq = NoDeq
    /\ consumer = Idle
    /\ dispatched = [id \in DOMAIN jobs |-> 0]

NextThree ==
    \/ \E job \in ThreeJobs :
          QueueOnly(Enqueue(job.id, job.type, job.createdAt, job.maxAttempts))
    \/ QueueOnly(Dequeue)
    \/ \E id \in AllIds, r \in ResultInputs : QueueOnly(Complete(id, r))
    \/ QueueOnly(Tick)

SpecThree == InitThree /\ [][NextThree]_vars

\* ------------------------------------------------------------------------
\* Consumer: scheduled() and processJob().  One invocation runs at a time.
\* Each request of the Consumer goes through the Gateway, which forwards it
\* to the queue with the queue's status; a fetch either is answered, or is
\* handled by the queue and rejects before the response arrives ("lost"),
\* or rejects without having reached the queue ("undelivered").
\* ------------------------------------------------------------------------
\* env.MAX_JOBS_PER_TICK, as parseInt reads it
MAX_JOBS_PER_TICK == 2
PostOutcomes == {"answered", "lost", "undelivered"}
\* outcomes of fetch(job.target): a 2xx response, another response, a throw
FetchOutcomes == {"ok", "http_error", "throws"}

\* scheduled(): the loop starts
Scheduled ==
    /\ consumer.pc = "idle"
    /\ consumer' = [Idle EXCEPT !.pc = "loop"]
    /\ UNCHANGED <<jobs, now, ticks, lastOp, prevDeq, dispatched>>

\* for (let i = 0; i < max; i++): the loop is over
LoopEnd ==
    /\ consumer.pc = "loop"
    /\ consumer.i >= clampIntFromString(MAX_JOBS_PER_TICK, 10, 1, 50)
    /\ consumer' = Idle
    /\ UNCHANGED <<jobs, now, ticks, lastOp, prevDeq, dispatched>>

\* const job = await dequeue(env).  A throw of dequeue() rejects the whole
\* invocation; a null job ends it.
ConsumerDequeue(outcome) ==
    /\ consumer.pc = "loop"
    /\ consumer.i < clampIntFromString(MAX_JOBS_PER_TICK, 10, 1, 50)
    /\ IF outcome = "undelivered"
         THEN /\ UNCHANGED <<jobs, now, ticks, lastOp, prevDeq, dispatched>>
              /\ consumer' = Idle
         ELSE /\ Dequeue
              /\ dispatched' = IF lastOp'.job = NULLTEXT THEN dispatched
                                ELSE [dispatched EXCEPT ![lastOp'.job] = @ + 1]
              /\ consumer' =
                    IF outcome = "lost" \/ lastOp'.job = NULLTEXT THEN Idle
                    ELSE [consumer EXCEPT
                            !.pc = IF lastOp'.jobType = "crawl"
                                   THEN "fetch" ELSE "unsupported",
                            !.job = lastOp'.job,
                            !.type = lastOp'.jobType,
                            !.sent = <<>>]

\* processJob, crawl: await fetch(job.target)
FetchTarget(res) ==
    /\ consumer.pc = "fetch"
    /\ consumer' = [consumer EXCEPT
                      !.pc = CASE res = "ok" -> "try_complete"
                               [] res = "http_error" -> "try_fail"
                               [] OTHER -> "catch_fail"]
    /\ UNCHANGED <<jobs, now, ticks, lastOp, prevDeq, dispatched>>

\* what a POST of postJson does to the queue
PostAck(kind, outcome) ==
    IF outcome = "undelivered"
    THEN UNCHANGED <<jobs, now, ticks, lastOp, prevDeq>>
    ELSE IF kind = "complete"
    THEN \E r \in ResultInputs : Complete(consumer.job, r)
    ELSE \E e \in ErrorInputs : Fail(consumer.job, e)

\* postJson throws when fetch rejects or the response is not 2xx; to be
\* read after PostAck
PostThrows(outcome) ==
    \/ outcome # "answered"
    \/ lastOp'.http < 200
    \/ lastOp'.http > 299

\* processJob, crawl, inside try: await postJson(complete) or, for a
\* response that is not ok, await postJson(fail).  A throw of postJson is
\* caught by the catch of the same try.
TryAck(outcome) ==
    /\ consumer.pc \in {"try_complete", "try_fail"}
    /\ LET kind == IF consumer.pc = "try_complete" THEN "complete" ELSE "fail"
       IN  /\ PostAck(kind, outcome)
           /\ consumer' =
                 IF PostThrows(outcome)
                 THEN [consumer EXCEPT !.pc = "catch_fail",
                                       !.sent = Append(@, kind)]
                 ELSE [consumer EXCEPT !.pc = "loop", !.i = @ + 1,
                                       !.sent = Append(@, kind)]
    /\ UNCHANGED dispatched

\* processJob, crawl, inside catch: await postJson(fail).  A throw leaves
\* processJob and is logged by scheduled; the loop goes on either way.
CatchFail(outcome) ==
    /\ consumer.pc = "catch_fail"
    /\ PostAck("fail", outcome)
    /\ consumer' = [consumer EXCEPT !.pc = "loop", !.i = @ + 1,
                                    !.sent = Append(@, "fail")]
    /\ UNCHANGED dispatched

\* processJob, any other type: await postJson(fail), outside the try
Unsupported(outcome) ==
    /\ consumer.pc = "unsupported"
    /\ PostAck("fail", outcome)
    /\ consumer' = [consumer EXCEPT !.pc = "loop", !.i = @ + 1,
                                    !.sent = Append(@, "fail")]
    /\ UNCHANGED dispatched

\* Gateway + queue + Consumer: producers enqueue through the Gateway, the
\* Consumer is the only client of /dequeue, /complete and /fail
NextSystem ==
    \/ \E body \in GatewayInputs, uuid \in Ids :
          QueueOnly(GatewayEnqueue(body, uuid))
    \/ Scheduled
    \/ \E outcome \in PostOutcomes : ConsumerDequeue(outcome)
    \/ \E res \in FetchOutcomes : FetchTarget(res)
    \/ \E outcome \in PostOutcomes : TryAck(outcome)
    \/ \E outcome \in PostOutcomes : CatchFail(outcome)
    \/ \E outcome \in PostOutcomes : Unsupported(outcome)
    \/ LoopEnd
    \/ QueueOnly(Tick)

SpecSystem == Init /\ [][NextSystem]_vars

\* ------------------------------------------------------------------------
\* Gateway + queue + Consumer when the clock keeps advancing, the Consumer
\* keeps being scheduled and each of its ack POSTs is answered.  The
\* producers enqueue a crawl job and a rank job before the clock first
\* advances.  The response of a /dequeue may be lost during the first
\* MaxCrashes dispatches (a Consumer that died holding the job).  The clock
\* is not stopped after MaxTicks advances here.
\* ------------------------------------------------------------------------
LiveInputs ==
    {body \in GatewayInputs :
        body.authorized /\ body.parses /\ body.type \in {"crawl", "rank"}}

\* crypto.randomUUID() of the Gateway for the job of the body
LiveUuid(body) == IF body.type = "crawl" THEN IdSeq[1] ELSE IdSeq[2]

ClockAdvance ==
    /\ \E t \in TickTargets :
          /\ t > now
          /\ now' = t
    /\ UNCHANGED <<jobs, ticks, lastOp, prevDeq, consumer, dispatched>>

CrashedDequeue ==
    /\ ConsumerDequeue("lost")
    /\ lastOp'.job # NULLTEXT
    /\ dispatched[IdSeq[1]] + dispatched[IdSeq[2]] < MaxCrashes

ConsumerLive ==
    \/ Scheduled
    \/ ConsumerDequeue("answered")
    \/ CrashedDequeue
    \/ \E res \in FetchOutcomes : FetchTarget(res)
    \/ TryAck("answered")
    \/ CatchFail("answered")
    \/ Unsupported("answered")
    \/ LoopEnd

NextLive ==
    \/ \E body \in LiveInputs :
          /\ now = T0
          /\ QueueOnly(GatewayEnqueue(body, LiveUuid(body)))
    \/ ConsumerLive
    \/ ClockAdvance

SpecLive ==
    /\ Init
    /\ [][NextLive]_vars
    /\ WF_vars(ConsumerLive)
    /\ WF_vars(ClockAdvance)

\* ========================================================================
\* Properties
\* ========================================================================
\* the row lastOp acted on, as it is now
OpRow == jobs[lastOp.id]
\* the table as it was when lastOp was handled
PreJobs ==
    IF lastOp.id \in DOMAIN jobs THEN [jobs EXCEPT ![lastOp.id] = lastOp.pre] ELSE jobs
PreStored == {id \in DOMAIN jobs : PreJobs[id] # NoRow}

DequeueReturned == lastOp.op = "dequeue" /\ lastOp.job # NULLTEXT
DequeueEmpty == lastOp.op = "dequeue" /\ lastOp.job = NULLTEXT
FailAnswered == lastOp.op = "fail" /\ lastOp.http = 200

\* C1: two dequeue calls handled one right after the other (the request
\* carries no caller identity, so this covers calls of two consumers in
\* either order), the first lease not yet expired when the second is
\* handled, never return the same job id.
C1_ConcurrentDequeuesDistinct ==
    ( /\ DequeueReturned
      /\ prevDeq.job # NULLTEXT
      /\ prevDeq.leaseUntil >= lastOp.at )
    => prevDeq.job # lastOp.job

\* C1 witness: the second call is handled at the very last instant of the
\* first lease and returns another job.
C1_Witness ==
    /\ DequeueReturned
    /\ prevDeq.job # NULLTEXT
    /\ prevDeq.leaseUntil = lastOp.at
    /\ prevDeq.job # lastOp.job

\* C2: every stored job has status processing exactly when its leaseUntil
\* is not null.
C2_ProcessingIffLease ==
    \A id \in Stored :
        (jobs[id].status = "processing") <=> (jobs[id].leaseUntil # NULL)

\* C2 witness: a leased job has just been completed while another job is
\* still leased.
C2_Witness ==
    /\ lastOp.op = "complete"
    /\ lastOp.pre # NoRow
    /\ lastOp.pre.status = "processing"
    /\ \E id \in Stored : jobs[id].status = "processing"

\* C3: every job whose status is done or failed has leaseUntil = null and
\* nextRunAt = null.
C3_TerminalHasNoLeaseNoNextRun ==
    \A id \in Stored :
        jobs[id].status \in {"done", "failed"}
            => jobs[id].leaseUntil = NULL /\ jobs[id].nextRunAt = NULL

\* C4: every stored job has attempts <= maxAttempts.
C4_AttemptsWithinMax ==
    \A id \in Stored : jobs[id].attempts <= jobs[id].maxAttempts

\* C5: once a job is done or failed, every step that is not a purge keeps
\* the job stored with the same status.
C5_TerminalIsFinal ==
    [][ \A id \in Ids :
          ( /\ jobs[id] # NoRow
            /\ jobs[id].status \in {"done", "failed"}
            /\ lastOp'.op # "purge" )
          => /\ jobs'[id] # NoRow
             /\ jobs'[id].status = jobs[id].status ]_vars

\* C6: dequeue returns a job only if that job was eligible at the call's
\* time (queued and out of backoff, or processing with leaseUntil strictly
\* before now), and returns no job only when no stored job was eligible.
NotLeasable(row, t) ==
    \/ row.status \in {"done", "failed"}
    \/ row.status = "queued" /\ row.nextRunAt # NULL /\ row.nextRunAt > t
    \/ row.status = "processing" /\ row.leaseUntil # NULL /\ row.leaseUntil >= t

C6_DequeueOnlyEligible ==
    /\ DequeueReturned => ~NotLeasable(lastOp.pre, lastOp.at)
    /\ DequeueEmpty => \A id \in Stored : NotLeasable(jobs[id], lastOp.at)

\* C6 witness: a job is returned at the very instant its backoff ends.
C6_Witness ==
    /\ DequeueReturned
    /\ lastOp.pre.status = "queued"
    /\ lastOp.pre.nextRunAt = lastOp.at

\* C7: a dequeue that finds a processing job with an expired lease returns
\* a job, and a dequeue leaves the attempts of the job it returns unchanged.
C7_ReclaimKeepsAttempts ==
    /\ DequeueReturned => OpRow.attempts = lastOp.pre.attempts
    /\ DequeueEmpty =>
          ~ \E id \in Stored : /\ jobs[id].status = "processing"
                               /\ jobs[id].leaseUntil < lastOp.at

\* C7 witness: a job leased and never failed is leased again after its lease
\* expired, and still has attempts = 0.
C7_Witness ==
    /\ DequeueReturned
    /\ lastOp.pre.status = "processing"
    /\ lastOp.pre.leaseUntil < lastOp.at
    /\ OpRow.status = "processing"
    /\ OpRow.attempts = 0

\* C8: fail on a stored job with attempts a and maxAttempts m: when a+1 < m
\* the job is queued with attempts a+1, no lease, the error message, and
\* nextRunAt = now + 10 s / 60 s / 300 s for a+1 = 1 / 2 / >= 3, answered
\* retried = true with that nextRunAt; otherwise the job is failed with
\* attempts a+1, no lease, no nextRunAt, answered retried = false.
ScheduleMs(n) == CASE n = 1 -> 10000 [] n = 2 -> 60000 [] OTHER -> 300000

C8_FailRetriesOrExhausts ==
    FailAnswered =>
        LET a == lastOp.pre.attempts
            m == lastOp.pre.maxAttempts
        IN  IF a + 1 < m
            THEN /\ OpRow.status = "queued"
                 /\ OpRow.attempts = a + 1
                 /\ OpRow.leaseUntil = NULL
                 /\ OpRow.error = lastOp.arg
                 /\ OpRow.nextRunAt = lastOp.at + ScheduleMs(a + 1)
                 /\ lastOp.retried
                 /\ lastOp.attempts = a + 1
                 /\ lastOp.nextRunAt = OpRow.nextRunAt
            ELSE /\ OpRow.status = "failed"
                 /\ OpRow.attempts = a + 1
                 /\ OpRow.leaseUntil = NULL
                 /\ OpRow.nextRunAt = NULL
                 /\ ~lastOp.retried
                 /\ lastOp.attempts = a + 1

\* C8 witness: a third failure that is retried, with the 300 s backoff.
C8_Witness ==
    /\ FailAnswered
    /\ lastOp.pre.attempts = 2
    /\ lastOp.retried
    /\ OpRow.nextRunAt = lastOp.at + 300000

\* C9: dequeue returns, among the jobs eligible at the call's time, the one
\* with the smallest createdAt and, among equal createdAt, the smallest id.
C9_OldestThenSmallestId ==
    DequeueReturned =>
        \A o \in PreStored :
            (Eligible(PreJobs[o], lastOp.at) /\ o # lastOp.job) =>
                \/ lastOp.pre.createdAt < PreJobs[o].createdAt
                \/ /\ lastOp.pre.createdAt = PreJobs[o].createdAt
                   /\ IdLess(lastOp.job, o)

\* C10: no step lowers the attempts of a job that stays stored.
C10_AttemptsNeverDecrease ==
    [][ \A id \in Ids :
          (jobs[id] # NoRow /\ jobs'[id] # NoRow)
              => jobs'[id].attempts >= jobs[id].attempts ]_vars

\* C10 witness: a job that failed twice is completed and keeps its attempts.
C10_Witness ==
    /\ lastOp.op = "complete"
    /\ lastOp.pre # NoRow
    /\ lastOp.pre.attempts = 2
    /\ OpRow.attempts = 2

\* C11: every job whose status is failed has attempts >= maxAttempts.
C11_FailedHasNoBudgetLeft ==
    \A id \in Stored :
        jobs[id].status = "failed" => jobs[id].attempts >= jobs[id].maxAttempts

\* C11 witness: the fail that uses up the last attempt of a job that was
\* retried before.
C11_Witness ==
    /\ FailAnswered
    /\ ~lastOp.retried
    /\ lastOp.pre.attempts >= 1
    /\ OpRow.status = "failed"
    /\ OpRow.attempts = OpRow.maxAttempts

\* C12: a successful enqueue inserts exactly one row: status queued,
\* attempts 0, no lease, no nextRunAt, updatedAt = sortAt = now, the id, type,
\* target and createdAt of the request, maxAttempts clamped into [1,10]
\* (3 when absent or not a number); get(id) returns those values and no other
\* row changes.
ClampedMaxAttempts(m) ==
    CASE m = NotANumber -> 3
      [] m # NotANumber /\ m < 1 -> 1
      [] m # NotANumber /\ m > 10 -> 10
      [] OTHER -> m

C12_EnqueueInsertsOneRow ==
    [][ (lastOp'.op = "enqueue" /\ lastOp'.http = 200 /\ ticks' = ticks) =>
          LET id == lastOp'.id
              row == jobs'[id]
              got == Get(jobs', id)
          IN  /\ jobs[id] = NoRow
              /\ row # NoRow
              /\ row.id = id
              /\ row.type = lastOp'.reqType
              /\ row.target = "https://x"
              /\ row.createdAt = lastOp'.reqCreatedAt
              /\ row.maxAttempts = ClampedMaxAttempts(lastOp'.reqMaxAttempts)
              /\ row.status = "queued"
              /\ row.attempts = 0
              /\ row.leaseUntil = NULL
              /\ row.nextRunAt = NULL
              /\ row.updatedAt = now'
              /\ row.sortAt = now'
              /\ got = row
              /\ \A o \in Ids \ {id} : jobs'[o] = jobs[o] ]_vars

\* C12 witness: maxAttempts = 11 has been stored as 10 next to a leased job.
C12_Witness ==
    /\ lastOp.op = "enqueue"
    /\ lastOp.http = 200
    /\ lastOp.reqMaxAttempts = 11
    /\ OpRow.maxAttempts = 10
    /\ \E o \in Stored \ {lastOp.id} : jobs[o].status = "processing"

\* C13: an authorized Gateway enqueue whose type is not crawl or rank is
\* answered 400 and inserts no row.
C13_UnknownTypeRejected ==
    ( /\ lastOp.op = "gateway_enqueue"
      /\ lastOp.http # 401
      /\ lastOp.reqType \notin {"crawl", "rank"} )
    => /\ lastOp.http = 400
       /\ PreJobs = jobs

\* C14: an enqueue whose id is already stored is answered with an error and
\* leaves every row of the store as it was.
C14_DuplicateEnqueueRejected ==
    [][ ( /\ lastOp'.op = "enqueue"
          /\ ticks' = ticks
          /\ jobs[lastOp'.id] # NoRow )
        => /\ lastOp'.http >= 400
           /\ jobs' = jobs ]_vars

C14_Witness ==
    /\ lastOp.op = "enqueue"
    /\ lastOp.http = 500
    /\ lastOp.reqType \in {"crawl", "rank"}
    /\ lastOp.pre.status = "done"
    /\ lastOp.pre.result # NULLTEXT
    /\ OpRow = lastOp.pre

\* C15: complete or fail on an id that is not stored changes no row and
\* creates none; complete is answered 200 and fail 404.
C15_UnknownIdIsNoOp ==
    [][ ( /\ lastOp'.op \in {"complete", "fail"}
          /\ ticks' = ticks
          /\ jobs[lastOp'.id] = NoRow )
        => /\ jobs' = jobs
           /\ lastOp'.op = "complete" => lastOp'.http = 200
           /\ lastOp'.op = "fail" => lastOp'.http = 404 ]_vars

C15_Witness ==
    /\ lastOp.op = "fail"
    /\ lastOp.http = 404
    /\ lastOp.pre = NoRow
    /\ OpRow = NoRow
    /\ \E o \in Stored : jobs[o].status = "processing"

\* C16: complete(id, r) applied a second time at the same clock value leaves
\* the store as the first application left it, the job being done with
\* result = serialize(r), error = null and leaseUntil = null.
C16_CompleteIdempotent ==
    [][ ( /\ lastOp.op = "complete"
          /\ lastOp'.op = "complete"
          /\ lastOp'.id = lastOp.id
          /\ lastOp'.arg = lastOp.arg
          /\ lastOp'.at = lastOp.at
          /\ ticks' = ticks
          /\ jobs[lastOp.id] # NoRow )
        => /\ jobs' = jobs
           /\ jobs'[lastOp.id].status = "done"
           /\ jobs'[lastOp.id].result = resultJson(lastOp.arg)
           /\ jobs'[lastOp.id].error = NULLTEXT
           /\ jobs'[lastOp.id].leaseUntil = NULL ]_vars

C16_Witness ==
    /\ lastOp.op = "complete"
    /\ lastOp.pre # NoRow
    /\ lastOp.pre.status = "done"
    /\ lastOp.pre.updatedAt = lastOp.at
    /\ lastOp.pre.attempts >= 1
    /\ OpRow = lastOp.pre
    /\ OpRow.result = resultJson(lastOp.arg)
    /\ OpRow.error = NULLTEXT

\* the stored jobs a list with the given status parameter is to return
ListMatching(statusIn) ==
    {id \in Stored : statusIn \in {"queued", "processing", "done", "failed"}
                        => jobs[id].status = statusIn}

\* C17: for every status filter and limit, following nextCursor from the
\* first page over an unmodified store reaches a null nextCursor, visits
\* each matching job exactly once, and in (sortAt descending, id descending)
\* order.
C17_ListWalkVisitsEachOnce ==
    \A st \in StatusInputs, lim \in LimitInputs :
        LET w == ListWalk(jobs, st, lim, NoCursor, MaxPages)
        IN  /\ w.ended
            /\ {w.ids[i] : i \in 1..Len(w.ids)} = ListMatching(st)
            /\ Len(w.ids) = Cardinality(ListMatching(st))
            /\ \A i \in 1..Len(w.ids) : \A j \in (i + 1)..Len(w.ids) :
                   ListBefore(jobs[w.ids[i]], jobs[w.ids[j]])

\* C17 witness: two done jobs share their sortAt and a walk with limit 1
\* receives them on two pages
C17_Witness ==
    /\ \E x \in Stored, y \in Stored :
          /\ x # y
          /\ jobs[x].status = "done" /\ jobs[y].status = "done"
          /\ jobs[x].sortAt = jobs[y].sortAt
    /\ Len(List(jobs, "done", 1, NoCursor).items) = 1
    /\ Len(ListWalk(jobs, "done", 1, NoCursor, MaxPages).ids) = 2

\* C18: purge(beforeMs) deletes exactly the done and failed jobs whose
\* sortAt < beforeMs, answers their number as deleted, and leaves every
\* other job as it was.
C18_PurgeDeletesOldTerminal ==
    [][ (lastOp'.op = "purge" /\ ticks' = ticks)
        => LET gone == {id \in Ids :
                          /\ jobs[id] # NoRow
                          /\ jobs[id].status \in {"done", "failed"}
                          /\ jobs[id].sortAt < lastOp'.beforeMs}
           IN  /\ \A id \in gone : jobs'[id] = NoRow
               /\ \A id \in Ids \ gone : jobs'[id] = jobs[id]
               /\ lastOp'.deleted = Cardinality(gone) ]_vars

\* C18 witness: a purge has deleted a job while a terminal job written at
\* beforeMs itself is still stored
C18_Witness ==
    /\ lastOp.op = "purge"
    /\ lastOp.deleted >= 1
    /\ \E id \in Stored :
          /\ jobs[id].status \in {"done", "failed"}
          /\ jobs[id].sortAt = lastOp.beforeMs

\* C19: every stored job whose result is not null has status done.
C19_ResultOnlyWhenDone ==
    \A id \in Stored :
        jobs[id].result # NULLTEXT => jobs[id].status = "done"

\* C20: every stored job whose error is not null has status failed, or
\* queued after a retry; a processing or done job has error = null.
C20_ErrorOnlyWhenFailedOrRetrying ==
    \A id \in Stored :
        jobs[id].error # NULLTEXT =>
            \/ jobs[id].status = "failed"
            \/ jobs[id].status = "queued" /\ jobs[id].attempts >= 1

\* C21: every stored job has sortAt >= createdAt, and no step moves the
\* sortAt of a job that stays stored backward.
C21_SortAtMonotonic ==
    [][ \A id \in Ids :
          /\ jobs'[id] # NoRow => jobs'[id].sortAt >= jobs'[id].createdAt
          /\ (jobs[id] # NoRow /\ jobs'[id] # NoRow)
                => jobs'[id].sortAt >= jobs[id].sortAt ]_vars

\* C22: a dequeue that returns a job changes exactly that row, to status
\* processing, leaseUntil = now + 120000, updatedAt = sortAt = now and
\* nextRunAt = null, and answers the row's id, type, target and createdAt
\* with the same leaseUntil; a dequeue with no eligible job answers
\* job = null and changes nothing.
C22_DequeueLeasesSelectedRow ==
    [][ (lastOp'.op = "dequeue" /\ ticks' = ticks)
        => /\ lastOp'.job = NULLTEXT
                <=> \A id \in Stored : ~Eligible(jobs[id], now)
           /\ IF lastOp'.job = NULLTEXT
                THEN jobs' = jobs /\ lastOp'.leaseUntil = NULL
                ELSE LET id == lastOp'.job
                     IN  /\ jobs[id] # NoRow
                         /\ jobs'[id] = [jobs[id] EXCEPT
                                !.status = "processing",
                                !.leaseUntil = now + 120000,
                                !.updatedAt = now, !.sortAt = now,
                                !.nextRunAt = NULL]
                         /\ \A o \in Ids \ {id} : jobs'[o] = jobs[o]
                         /\ lastOp'.jobType = jobs[id].type
                         /\ lastOp'.jobTarget = jobs[id].target
                         /\ lastOp'.jobCreatedAt = jobs[id].createdAt
                         /\ lastOp'.leaseUntil = jobs'[id].leaseUntil ]_vars

\* C22 witness: a dequeue has leased a job that was waiting for a retry,
\* while the other job is stored
C22_Witness ==
    /\ DequeueReturned
    /\ lastOp.pre.status = "queued"
    /\ lastOp.pre.nextRunAt # NULL
    /\ OpRow.status = "processing"
    /\ OpRow.nextRunAt = NULL
    /\ OpRow.leaseUntil = lastOp.leaseUntil
    /\ \E o \in Stored : o # lastOp.id

\* C23: the ack and the reclaim are serialized and the first one wins.  A
\* dequeue handled after the complete of a job does not return that job,
\* and one handled after its fail returns it only as a queued retry, never
\* as an expired lease; a complete handled after the dequeue that reclaimed
\* the job is answered 200 and leaves the job done with leaseUntil = null.
C23_AckReclaimRace ==
    [][ /\ ( /\ lastOp.op \in {"complete", "fail"}
              /\ lastOp.http = 200
              /\ lastOp'.op = "dequeue"
              /\ lastOp'.job = lastOp.id )
            => /\ lastOp.op = "fail"
               /\ lastOp'.pre.status = "queued"
        /\ ( /\ lastOp.op = "dequeue"
              /\ lastOp.job # NULLTEXT
              /\ lastOp.pre.status = "processing"
              /\ lastOp'.op = "complete"
              /\ lastOp'.id = lastOp.job )
            => /\ lastOp'.http = 200
               /\ jobs'[lastOp.job].status = "done"
               /\ jobs'[lastOp.job].leaseUntil = NULL ]_vars

\* C23 witness: the job leased at T0 was leased again when that lease had
\* expired (the only way its lease can end at T0 + 2 * leaseMs + 1), and a
\* complete handled after that reclaim has left it done
C23_Witness ==
    /\ lastOp.op = "complete"
    /\ lastOp.http = 200
    /\ lastOp.pre # NoRow
    /\ lastOp.pre.status = "processing"
    /\ lastOp.pre.leaseUntil = T0 + 2 * leaseMs + 1
    /\ lastOp.pre.attempts = 0
    /\ OpRow.status = "done"
    /\ OpRow.leaseUntil = NULL

\* the first three pages of a listing without filter, two items a page
ListPage1 == List(jobs, NULLTEXT, 2, NoCursor)
ListPage2 == List(jobs, NULLTEXT, 2, ListPage1.nextCursor)
ListPage3 == List(jobs, NULLTEXT, 2, ListPage2.nextCursor)

\* C24: with three jobs and limit = 2, the second page, requested with the
\* first page's nextCursor, returns the single remaining job and
\* nextCursor = null.
C24_LastPageHasNullCursor ==
    Cardinality(Stored) = 3
    => /\ Len(ListPage1.items) = 2
       /\ Len(ListPage2.items) = 1
       /\ \A i \in 1..2 : ListPage1.items[i].id # ListPage2.items[1].id
       /\ ListPage2.nextCursor = NoCursor

\* C24 amended: nextCursor is null exactly when the page is empty.  With
\* three jobs and limit = 2 the second page returns the single remaining
\* job with a nextCursor made of that job, and the third page, requested
\* with it, is empty with nextCursor = null.
C24_OnlyEmptyPageHasNullCursor ==
    /\ \A st \in StatusInputs, lim \in LimitInputs :
          List(jobs, st, lim, NoCursor).nextCursor = NoCursor
            <=> Len(List(jobs, st, lim, NoCursor).items) = 0
    /\ Cardinality(Stored) = 3
       => /\ Len(ListPage1.items) = 2
          /\ Len(ListPage2.items) = 1
          /\ \A i \in 1..2 : ListPage1.items[i].id # ListPage2.items[1].id
          /\ ListPage2.nextCursor =
                encodeCursor([sortAt |-> ListPage2.items[1].sortAt,
                              id |-> ListPage2.items[1].id])
          /\ ListPage2.nextCursor # NoCursor
          /\ Len(ListPage3.items) = 0
          /\ ListPage3.nextCursor = NoCursor

\* C24 witness: three jobs are stored, two of them written at one clock
\* value and one later, the tie being split by the page boundary
C24_Witness ==
    /\ Cardinality(Stored) = 3
    /\ Len(ListPage1.items) = 2
    /\ Len(ListPage2.items) = 1
    /\ ListPage1.items[1].sortAt > ListPage1.items[2].sortAt
    /\ ListPage1.items[2].sortAt = ListPage2.items[1].sortAt

\* C25: in Gateway + queue + Consumer, the attempts of a job is at most the
\* number of times dequeue has returned it, and the Consumer sends at most
\* one ack for a dequeued job.
C25_OneAckPerDispatch ==
    /\ \A id \in Stored : jobs[id].attempts <= dispatched[id]
    /\ Len(consumer.sent) <= 1

\* C26: when the Gateway has answered an enqueue with 202 accepted, the
\* queue holds the row of that job, queued.
C26_AcceptedIsStored ==
    (lastOp.op = "gateway_enqueue" /\ lastOp.http = 202)
    => /\ jobs[lastOp.id] # NoRow
       /\ jobs[lastOp.id].status = "queued"
       /\ jobs[lastOp.id].type = lastOp.reqType

\* a lease nobody will ack: the job is processing and the Consumer is not
\* working on it
Orphaned(id) ==
    /\ jobs[id] # NoRow
    /\ jobs[id].status = "processing"
    /\ consumer.pc \in {"idle", "loop"} \/ consumer.job # id

\* C27: with the clock advancing, the Consumer scheduled again and again
\* and every ack answered, every stored job eventually is done or failed;
\* a rank job is never done and is failed after at most maxAttempts acked
\* dispatches; a job left processing by a Consumer that died is eventually
\* returned by dequeue again.
C27_EveryJobEnds ==
    /\ \A id \in Ids :
          (jobs[id] # NoRow)
            ~> (jobs[id] # NoRow /\ jobs[id].status \in {"done", "failed"})
    /\ \A id \in Ids :
          (jobs[id] # NoRow /\ jobs[id].type = "rank")
            ~> (jobs[id] # NoRow /\ jobs[id].status = "failed")
    /\ [](\A id \in Stored :
            /\ jobs[id].type = "rank" => jobs[id].status # "done"
            /\ jobs[id].status = "failed"
                 => dispatched[id] <= jobs[id].maxAttempts + MaxCrashes)
    /\ \A id \in Ids : \A n \in 0..MaxCrashes :
          (Orphaned(id) /\ dispatched[id] = n) ~> (dispatched[id] > n)

\* C27 witness: a job whose first dispatch was lost has been leased again
\* after its lease expired, has failed on every dispatch and is failed
C27_Witness ==
    \E id \in Stored :
        /\ jobs[id].status = "failed"
        /\ jobs[id].maxAttempts = 3
        /\ jobs[id].attempts = 3
        /\ dispatched[id] > jobs[id].attempts
        /\ \E o \in Stored : jobs[o].type = "rank" /\ jobs[o].status = "failed"

====
